---- MODULE Spec2Model ----
(***************************************************************************)
(* Event registration and dispatch of gooeypie/widgets.py.                 *)
(*                                                                         *)
(* One widget is modelled: its event table (_events), the bindings,        *)
(* -command option, radiobutton commands and variable traces it installed  *)
(* in the toolkit, and the linked variable of a Slider or an Input.  The   *)
(* toolkit's part is what tkinter does for the calls the code makes:       *)
(* bind replaces the handler of a sequence, unbind clears the sequence,    *)
(* configure(command=...) fails (TclError) on a widget class that has no   *)
(* -command option, trace adds one more write trace to a variable, and an  *)
(* exception in a handler is reported, not propagated.                     *)
(*                                                                         *)
(* op, err and calls describe the last operation: what was called, the     *)
(* exception it ended in, and the functions it ran with their event.       *)
(* other_events is the event table of a second widget of the same class;   *)
(* dispatched_value is the value of the Slider when its 'change' handler   *)
(* last called _event (its value at construction before that).             *)
(*                                                                         *)
(* The property facade is a second specification, SpecFacade: config is    *)
(* the widget's native configuration, font the font of a StyleLabel's      *)
(* style, fop and ret the last accessor call and what it returned, depth   *)
(* the number of frames of a running read of Input.secret.                 *)
(***************************************************************************)
EXTENDS Integers, Sequences, FiniteSets, TLC

VARIABLES wtype, _events, binds, command, radio_command, traces,
          _value, _previous_value, cursor, op, err, calls,
          other_events, dispatched_value,
          config, font, fop, ret, depth

progvars == <<wtype, _events, binds, command, radio_command, traces,
              _value, _previous_value, cursor, other_events,
              dispatched_value>>
\* the state of the event mixin, and of the property facade
eventvars == <<wtype, _events, binds, command, radio_command, traces,
               _value, _previous_value, cursor, op, calls,
               other_events, dispatched_value>>
facadevars == <<config, font, fop, ret, depth>>
vars == <<wtype, _events, binds, command, radio_command, traces,
          _value, _previous_value, cursor, op, err, calls,
          other_events, dispatched_value, config, font, fop, ret, depth>>

-----------------------------------------------------------------------------
(* Bounds *)

\* Slider values are 0..MaxValue
MaxValue == 1
\* at most MaxTraces write traces are added to an Input's variable
MaxTraces == 2
\* event names of _tk_event_mappings that calls and native events use:
\* the first NumMapped of MappedOrder
NumMapped == 1
\* width and height values written are 1..MaxSize
MaxSize == 2
\* the options argument of set_font has at most MaxOptionAtoms words and
\* spaces
MaxOptionAtoms == 3
\* frames a read of a property may nest before RecursionError is raised
MaxDepth == 3

-----------------------------------------------------------------------------
(* Values *)

None == [NoneType |-> TRUE]

\* callbacks: functions with their __name__ and __code__.co_argcount
Callbacks ==
    { [name |-> "cb1", co_argcount |-> 1],
      [name |-> "cb2", co_argcount |-> 1],
      [name |-> "no_args", co_argcount |-> 0],
      [name |-> "two_args", co_argcount |-> 2] }

GoodCallbacks == { cb \in Callbacks : cb.co_argcount = 1 }

\* tk event objects: a mouse event (char '??'), a key event, a key event
\* of a key without character
TkEvents ==
    { [x |-> 1, y |-> 2, x_root |-> 11, y_root |-> 12,
       char |-> "??", keysym |-> "??", keycode |-> 0],
      [x |-> 3, y |-> 4, x_root |-> 13, y_root |-> 14,
       char |-> "a", keysym |-> "a", keycode |-> 65],
      [x |-> 3, y |-> 4, x_root |-> 13, y_root |-> 14,
       char |-> "", keysym |-> "Shift_L", keycode |-> 50] }

Texts == {"", "a"}

_tk_event_mappings ==
    [ mouse_down   |-> "<Button-1>",
      mouse_up     |-> "<ButtonRelease-1>",
      double_click |-> "<Double-Button-1>",
      triple_click |-> "<Triple-Button-1>",
      middle_click |-> "<Button-2>",
      right_click  |-> "<Button-3>",
      mouse_over   |-> "<Enter>",
      mouse_out    |-> "<Leave>",
      key_press    |-> "<Key>",
      focus        |-> "<FocusIn>",
      blur         |-> "<FocusOut>" ]

MappedOrder ==
    << "mouse_down", "mouse_over", "key_press", "mouse_up", "double_click",
       "triple_click", "middle_click", "right_click", "mouse_out", "focus",
       "blur" >>

\* the event names passed to the widget's methods
EventNames ==
    { MappedOrder[i] : i \in { j \in 1..Len(MappedOrder) : j <= NumMapped } }
      \cup {"press", "change", "select"}

\* the sequences the widget binds
TkSequences ==
    { _tk_event_mappings[e] : e \in DOMAIN _tk_event_mappings }
      \cup {"<<Modified>>", "<<ListboxSelect>>", "<<ComboboxSelected>>"}

-----------------------------------------------------------------------------
(* Widget classes *)

\* the classes a widget of the model is constructed from: one for every way
\* a class takes part in event handling (StyleLabel and Image are as Label,
\* ImageButton as Button, Secret as Input)
WidgetTypes ==
    { "Label", "Hyperlink", "Button", "Slider", "Input", "Listbox",
      "Textbox", "Checkbox", "Radiogroup", "LabelRadiogroup", "Dropdown",
      "Spinbox" }

\* the GooeyPie classes a class derives from (itself included)
Classes(t) ==
    CASE t = "StyleLabel"      -> {"StyleLabel", "Label"}
      [] t = "Hyperlink"       -> {"Hyperlink", "StyleLabel", "Label"}
      [] t = "Image"           -> {"Image", "Label"}
      [] t = "ImageButton"     -> {"ImageButton", "Button"}
      [] t = "Secret"          -> {"Secret", "Input"}
      [] t = "Radiogroup"      -> {"Radiogroup", "RadiogroupBase"}
      [] t = "LabelRadiogroup" -> {"LabelRadiogroup", "RadiogroupBase"}
      [] OTHER                 -> {t}

isinstance(t, cls) == cls \in Classes(t)

\* the event names the constructor of the class adds to _events
ExtraEvents(t) ==
    IF isinstance(t, "Button") THEN {"press"}
    ELSE IF isinstance(t, "Slider") \/ isinstance(t, "Input")
            \/ isinstance(t, "Checkbox") \/ isinstance(t, "RadiogroupBase")
            \/ isinstance(t, "Spinbox") THEN {"change"}
    ELSE IF isinstance(t, "Listbox") \/ isinstance(t, "Dropdown")
         THEN {"select"}
    ELSE {}

\* the supported set of a widget type: the keys of _events after __init__
SupportedEvents(t) == DOMAIN _tk_event_mappings \cup ExtraEvents(t)

\* the toolkit base class has a -command option: ttk.Button, ttk.Scale,
\* ttk.Checkbutton, ttk.Spinbox
HasCommandOption(t) ==
    \/ isinstance(t, "Button")
    \/ isinstance(t, "Slider")
    \/ isinstance(t, "Checkbox")
    \/ isinstance(t, "Spinbox")

-----------------------------------------------------------------------------
(* Handlers given to the toolkit *)

partial(fn, event_name) == [fn |-> fn, event_name |-> event_name]

\* command='' : no command
NoCommand == [fn |-> "", event_name |-> ""]

\* Hyperlink's own handlers
OpenLink == [fn |-> "_open_link", event_name |-> ""]
HandCursor == [fn |-> "cursor_hand2", event_name |-> ""]

\* GooeyPieEvent.__init__ testing char against the empty string
GooeyPieEvent_emptychar(event_name, gooeypie_widget, tk_event) ==
    IF tk_event # None
    THEN [ event_name |-> event_name,
           widget |-> gooeypie_widget,
           mouse |-> [ x |-> tk_event.x, y |-> tk_event.y,
                       x_root |-> tk_event.x_root,
                       y_root |-> tk_event.y_root ],
           key |-> IF tk_event.char = ""
                   THEN None
                   ELSE [ char |-> tk_event.char,
                          keysym |-> tk_event.keysym,
                          keycode |-> tk_event.keycode ] ]
    ELSE [ event_name |-> event_name,
           widget |-> gooeypie_widget,
           mouse |-> None,
           key |-> None ]

\* GooeyPieEvent.__init__
GooeyPieEvent(event_name, gooeypie_widget, tk_event) ==
    IF tk_event # None
    THEN [ event_name |-> event_name,
           widget |-> gooeypie_widget,
           mouse |-> [ x |-> tk_event.x, y |-> tk_event.y,
                       x_root |-> tk_event.x_root,
                       y_root |-> tk_event.y_root ],
           key |-> IF tk_event.char = "??"
                   THEN None
                   ELSE [ char |-> tk_event.char,
                          keysym |-> tk_event.keysym,
                          keycode |-> tk_event.keycode ] ]
    ELSE [ event_name |-> event_name,
           widget |-> gooeypie_widget,
           mouse |-> None,
           key |-> None ]

\* the result of running a function: the functions it called, the
\* exception it ended in
Result(c, e) == [calls |-> c, err |-> e]

\* GooeyPieWidget._event with the event table events
_event(self, events, event_name, tk_event) ==
    IF event_name \notin DOMAIN events
    THEN Result(<<>>, "AttributeError")
    ELSE IF events[event_name] = None
    THEN Result(<<>>, "TypeError")
    ELSE Result(<< [ fn |-> events[event_name],
                     event |-> GooeyPieEvent(event_name, self, tk_event) ] >>,
                "")

\* GooeyPieWidget._slider_change_event without line 88
_slider_change_event_noupdate(self, events, event_name, value, previous) ==
    IF value # previous
    THEN [ previous |-> previous,
           result |-> [ calls |-> << [ fn |-> events[event_name],
                                       event |-> GooeyPieEvent(event_name,
                                                               self, None) ] >>,
                        err |-> "" ] ]
    ELSE [ previous |-> previous, result |-> [calls |-> <<>>, err |-> ""] ]

\* GooeyPieWidget._slider_change_event: value is self._value.get(), previous
\* is self._previous_value; the result carries the new _previous_value
_slider_change_event(self, events, event_name, value, previous) ==
    IF value # previous
    THEN [ previous |-> value,
           result |-> _event(self, events, event_name, None) ]
    ELSE [ previous |-> previous, result |-> Result(<<>>, "") ]

\* GooeyPieWidget._text_change_event
_text_change_event(self, events, event_name) ==
    _event(self, events, event_name, None)

\* a write of the variable runs every write trace; each handler runs in its
\* own callback wrapper, which reports its exception
RECURSIVE RunTraces(_, _, _)
RunTraces(self, events, trs) ==
    IF trs = <<>>
    THEN Result(<<>>, "")
    ELSE LET first == _text_change_event(self, events, Head(trs).event_name)
             rest == RunTraces(self, events, Tail(trs))
         IN  Result(first.calls \o rest.calls,
                    IF first.err # "" THEN first.err ELSE rest.err)

\* the widget of the model
Self == "self"

Operation(kind, event_name, callback, sequence, tk_event, old) ==
    [ kind |-> kind, event_name |-> event_name, callback |-> callback,
      sequence |-> sequence, tk_event |-> tk_event, old |-> old ]

\* the callback check of add_event_listener, and the check as it would be
\* if it only rejected functions without argument
AcceptsSingleArgument_atleast(callback) == callback.co_argcount >= 1
AcceptsSingleArgument(callback) == callback.co_argcount = 1

\* self._events is a dict created in __init__ for the instance: the table
\* of another widget after the table of self became events; and the same
\* if all widgets held one dict
TableOfOther_shared(other, events) == events
TableOfOther(other, events) == other

-----------------------------------------------------------------------------
(* The property facade *)

\* the classes SpecFacade constructs its widget from
FacadeTypes ==
    { "Label", "StyleLabel", "Button", "Input", "Textbox", "Listbox",
      "Spinbox" }

OptionKeys == {"text", "width", "height", "justify", "show"}

\* the native configuration after the constructor: Button(c, '', cb, 0) has
\* width max(0, len('') + 2), Textbox the defaults of its parameters,
\* Spinbox(c, 0, 9) the width len('9') + 4, Input and Listbox the toolkit's
\* defaults; Input.__init__ sets secret = False
InitialConfig(t) ==
    [ k \in OptionKeys |->
        CASE k = "text"    -> ""
          [] k = "width"   -> IF isinstance(t, "Button") THEN 2
                              ELSE IF isinstance(t, "Spinbox") THEN 5
                              ELSE 20
          [] k = "height"  -> IF isinstance(t, "Textbox") THEN 5 ELSE 10
          [] k = "justify" -> "left"
          [] k = "show"    -> "" ]

\* the read/write accessor pairs of a class that go to the configuration
Properties(t) ==
    IF isinstance(t, "Label") THEN {"text"}
    ELSE IF isinstance(t, "Button") THEN {"text", "width"}
    ELSE IF isinstance(t, "Input") THEN {"width", "justify"}
    ELSE IF isinstance(t, "Textbox") THEN {"width", "height"}
    ELSE IF isinstance(t, "Listbox") THEN {"height"}
    ELSE IF isinstance(t, "Spinbox") THEN {"width"}
    ELSE {}

\* the values a property is set to
PropertyValues(property) ==
    CASE property = "text"    -> Texts
      [] property = "justify" -> {"left", "right"}
      [] OTHER                -> 1..MaxSize

\* the configuration key the setter of a property writes
SetterKey(t, property) == property

\* the configuration key the getter of a property reads
GetterKey(t, property) ==
    IF isinstance(t, "Textbox") /\ property = "height"
    THEN "width"
    ELSE property

\* what a call that returns gives back
Return(value) == [value |-> value]

FacadeCall(kind, property, arg) ==
    [kind |-> kind, property |-> property, arg |-> arg]

\* the getter of Input.secret: its body is the expression self.secret, a
\* read of the same property; and a getter that returned the masking state
SecretGetter_show(cfg) == [reads |-> "", value |-> Return(cfg["show"] # "")]
SecretGetter(cfg) == [reads |-> "secret", value |-> None]

(* StyleLabel *)

\* the font of the style: font.nametofont('TkDefaultFont').actual()
DefaultFont ==
    [ family |-> "TkDefault", size |-> "10", weight |-> "normal",
      slant |-> "roman", underline |-> 0, overstrike |-> 0 ]

FontNames == {"Arial", "default"}
\* sizes are written as their numerals
FontSizes == {"12", "default"}

StyleWords == {"bold", "italic", "underline", "strikethrough"}

\* a string of words and single spaces: the sequence of its words and
\* spaces, no word next to a word
OptionAtoms == StyleWords \cup {"wavy", " "}
OptionStrings ==
    { o \in UNION { [1..n -> OptionAtoms] : n \in 0..MaxOptionAtoms } :
        \A i \in 1..(Len(o) - 1) : o[i] = " " \/ o[i + 1] = " " }

\* options.split(' '): the pieces between the spaces; '' gives ['']
RECURSIVE Split(_)
Split(o) ==
    IF o = <<>> THEN << "" >>
    ELSE IF Head(o) = " " THEN << "" >> \o Split(Tail(o))
    ELSE << Head(o) >> \o Tail(Split(Tail(o)))

\* StyleLabel._set_font after _get_current_font: the font the style has
\* after font_dict is set: slant is italic or roman
_set_font(font_dict) ==
    [ family |-> font_dict.family,
      size |-> font_dict.size,
      weight |-> IF font_dict.weight = "bold" THEN "bold" ELSE "normal",
      slant |-> IF font_dict.slant = "italic" THEN "italic" ELSE "roman",
      underline |-> IF font_dict.underline = 1 THEN 1 ELSE 0,
      overstrike |-> IF font_dict.overstrike = 1 THEN 1 ELSE 0 ]

\* the setters font_name, font_size, font_weight, font_style, underline and
\* strikethrough as set_font uses them
set_font_name(f, value) ==
    _set_font([f EXCEPT !.family = IF value = "default"
                                   THEN DefaultFont.family ELSE value])
set_font_size(f, value) ==
    _set_font([f EXCEPT !.size = IF value = "default"
                                 THEN DefaultFont.size ELSE value])

\* the loop of set_font over the pieces: the font and the exception
RECURSIVE ApplyOptions(_, _)
ApplyOptions(f, options) ==
    IF options = <<>> THEN [font |-> f, err |-> ""]
    ELSE LET option == Head(options)
         IN  IF option = "bold"
             THEN ApplyOptions(_set_font([f EXCEPT !.weight = "bold"]),
                               Tail(options))
             ELSE IF option = "italic"
             THEN ApplyOptions(_set_font([f EXCEPT !.slant = "italic"]),
                               Tail(options))
             ELSE IF option = "underline"
             THEN ApplyOptions(_set_font([f EXCEPT !.underline = 1]),
                               Tail(options))
             ELSE IF option = "strikethrough"
             THEN ApplyOptions(_set_font([f EXCEPT !.overstrike = 1]),
                               Tail(options))
             ELSE [font |-> f, err |-> "ValueError: Font options"]

-----------------------------------------------------------------------------
(* Construction *)

\* GooeyPieWidget.__init__ and the constructor of the class; callback is
\* the callback argument of Button
Constructed(types) ==
    /\ wtype \in types
    /\ \E callback \in GoodCallbacks \cup {None} :
         /\ callback # None => isinstance(wtype, "Button")
         /\ _events = [ e \in SupportedEvents(wtype) |->
                          IF e = "press" THEN callback ELSE None ]
         /\ command = IF callback # None
                      THEN partial("_event", "press") ELSE NoCommand
    /\ binds = [ s \in TkSequences |->
                   IF isinstance(wtype, "Hyperlink") /\ s = "<Enter>"
                   THEN HandCursor
                   ELSE IF isinstance(wtype, "Hyperlink") /\ s = "<Button-1>"
                   THEN OpenLink
                   ELSE None ]
    /\ radio_command = NoCommand
    /\ traces = <<>>
    /\ _value = IF isinstance(wtype, "Slider") THEN 0
                ELSE IF isinstance(wtype, "Input") THEN "" ELSE "n/a"
    /\ _previous_value = IF isinstance(wtype, "Slider") THEN 0 ELSE "n/a"
    /\ cursor = ""
    /\ other_events = [ e \in SupportedEvents(wtype) |-> None ]
    /\ dispatched_value = _previous_value
    /\ op = Operation("__init__", "", None, "", None, None)
    /\ err = ""
    /\ calls = <<>>
    /\ config = InitialConfig(wtype)
    /\ font = DefaultFont
    /\ fop = FacadeCall("__init__", "", None)
    /\ ret = None
    /\ depth = 0

Init == Constructed(WidgetTypes)

-----------------------------------------------------------------------------
(* The widget's methods *)

\* GooeyPieWidget.add_event_listener
add_event_listener(event_name, callback) ==
    /\ UNCHANGED facadevars
    /\ op' = Operation("add_event_listener", event_name, callback, "", None,
                       None)
    /\ calls' = <<>>
    /\ UNCHANGED <<wtype, _value, _previous_value, cursor, dispatched_value>>
    /\ IF event_name \notin DOMAIN _events
       THEN /\ err' = "GooeyPieError: event not valid"
            /\ UNCHANGED <<_events, binds, command, radio_command, traces>>
       ELSE IF ~AcceptsSingleArgument(callback)
       THEN /\ err' = "GooeyPieError: must accept a single argument"
            /\ UNCHANGED <<_events, binds, command, radio_command, traces>>
       ELSE
         /\ event_name = "change" /\ isinstance(wtype, "Input")
               => Len(traces) < MaxTraces
         /\ _events' = [_events EXCEPT ![event_name] = callback]
         /\ binds' =
              [ s \in TkSequences |->
                  IF \/ /\ event_name = "select"
                        /\ \/ isinstance(wtype, "Listbox")
                              /\ s = "<<ListboxSelect>>"
                           \/ ~isinstance(wtype, "Listbox")
                              /\ isinstance(wtype, "Dropdown")
                              /\ s = "<<ComboboxSelected>>"
                     \/ /\ event_name = "change"
                        /\ isinstance(wtype, "Textbox")
                        /\ s = "<<Modified>>"
                     \/ /\ event_name \in DOMAIN _tk_event_mappings
                        /\ s = _tk_event_mappings[event_name]
                  THEN partial("_event", event_name)
                  ELSE binds[s] ]
         /\ radio_command' =
              IF event_name = "change" /\ isinstance(wtype, "RadiogroupBase")
              THEN partial("_event", event_name)
              ELSE radio_command
         /\ traces' =
              IF event_name = "change" /\ isinstance(wtype, "Input")
              THEN Append(traces, partial("_text_change_event", event_name))
              ELSE traces
         /\ command' =
              IF event_name = "change" /\ isinstance(wtype, "Slider")
              THEN partial("_slider_change_event", event_name)
              ELSE IF event_name = "change"
                      /\ (isinstance(wtype, "Checkbox")
                          \/ isinstance(wtype, "Spinbox"))
              THEN partial("_event", event_name)
              ELSE IF event_name = "press" /\ HasCommandOption(wtype)
              THEN partial("_event", event_name)
              ELSE command
         /\ err' = IF event_name = "press" /\ ~HasCommandOption(wtype)
                   THEN "TclError" ELSE ""
    /\ other_events' = TableOfOther(other_events, _events')

\* GooeyPieWidget.remove_event_listener
remove_event_listener(event_name) ==
    /\ UNCHANGED facadevars
    /\ op' = Operation("remove_event_listener", event_name, None, "", None,
                       None)
    /\ calls' = <<>>
    /\ UNCHANGED <<wtype, radio_command, traces, _value, _previous_value,
                   cursor, dispatched_value>>
    /\ _events' = [ e \in DOMAIN _events \cup {event_name} |->
                      IF e = event_name THEN None ELSE _events[e] ]
    /\ other_events' = TableOfOther(other_events, _events')
    /\ IF event_name \in {"change", "press"}
       THEN /\ command' = IF HasCommandOption(wtype)
                          THEN NoCommand ELSE command
            /\ err' = IF HasCommandOption(wtype) THEN "" ELSE "TclError"
            /\ UNCHANGED binds
       ELSE IF event_name \in DOMAIN _tk_event_mappings
       THEN /\ binds' = [binds EXCEPT
                           ![_tk_event_mappings[event_name]] = None]
            /\ err' = ""
            /\ UNCHANGED command
       ELSE /\ err' = "ValueError: Cannot remove event"
            /\ UNCHANGED <<binds, command>>

\* a call of GooeyPieWidget._event(event_name), tk_event left at its default
dispatch(event_name) ==
    LET r == _event(Self, _events, event_name, None)
    IN  /\ op' = Operation("_event", event_name, None, "", None, None)
        /\ calls' = r.calls
        /\ err' = r.err
        /\ UNCHANGED progvars
        /\ UNCHANGED facadevars

-----------------------------------------------------------------------------
(* Native triggers *)

\* the toolkit delivers tk_event for a sequence the widget has a handler for
NativeEvent(sequence, tk_event) ==
    /\ UNCHANGED facadevars
    /\ binds[sequence] # None
    /\ LET h == binds[sequence]
           r == IF h.fn = "_event"
                THEN _event(Self, _events, h.event_name, tk_event)
                ELSE Result(<< [fn |-> h, event |-> None] >>, "")
       IN  /\ op' = Operation("native_event", h.event_name, None, sequence,
                              tk_event, None)
           /\ calls' = r.calls
           /\ err' = r.err
           /\ cursor' = IF h = HandCursor THEN "hand2" ELSE cursor
    /\ UNCHANGED <<wtype, _events, binds, command, radio_command, traces,
                   _value, _previous_value, other_events, dispatched_value>>

\* a Button, Checkbox or Spinbox is operated: the toolkit calls its command
NativeCommand ==
    /\ UNCHANGED facadevars
    /\ HasCommandOption(wtype) /\ ~isinstance(wtype, "Slider")
    /\ command # NoCommand
    /\ LET r == _event(Self, _events, command.event_name, None)
       IN  /\ op' = Operation("native_command", command.event_name, None, "",
                              None, None)
           /\ calls' = r.calls
           /\ err' = r.err
    /\ UNCHANGED progvars

\* a radiobutton of the group is chosen: the toolkit calls its command
NativeRadioCommand ==
    /\ UNCHANGED facadevars
    /\ radio_command # NoCommand
    /\ LET r == _event(Self, _events, radio_command.event_name, None)
       IN  /\ op' = Operation("native_radio_command",
                              radio_command.event_name, None, "", None, None)
           /\ calls' = r.calls
           /\ err' = r.err
    /\ UNCHANGED progvars

\* the scale is set to val (Slider.value setter, or the pointer moves it):
\* the toolkit writes the variable and calls the command with the value
ScaleSet(val) ==
    /\ UNCHANGED facadevars
    /\ isinstance(wtype, "Slider")
    /\ _value' = val
    /\ op' = Operation("scale_set", command.event_name, None, "", None,
                       _value)
    /\ IF command = NoCommand
       THEN /\ calls' = <<>>
            /\ err' = ""
            /\ UNCHANGED <<_previous_value, dispatched_value>>
       ELSE IF command.fn = "_slider_change_event"
       THEN LET s == _slider_change_event(Self, _events, command.event_name,
                                          val, _previous_value)
            IN  /\ _previous_value' = s.previous
                /\ calls' = s.result.calls
                /\ err' = s.result.err
                /\ dispatched_value' =
                     IF s.result = Result(<<>>, "")
                     THEN dispatched_value ELSE val
       ELSE \* the command is partial(_event, 'press'): the value string is
            \* taken for the tk event, and has no attribute x
            /\ calls' = <<>>
            /\ err' = "AttributeError"
            /\ UNCHANGED <<_previous_value, dispatched_value>>
    /\ UNCHANGED <<wtype, _events, binds, command, radio_command, traces,
                   cursor, other_events>>

\* the Input's variable is written (Input.text setter, or typing)
VariableWrite(value) ==
    /\ UNCHANGED facadevars
    /\ isinstance(wtype, "Input")
    /\ _value' = value
    /\ LET r == RunTraces(Self, _events, traces)
       IN  /\ op' = Operation("variable_write",
                              IF traces = <<>> THEN ""
                              ELSE Head(traces).event_name,
                              None, "", None, _value)
           /\ calls' = r.calls
           /\ err' = r.err
    /\ UNCHANGED <<wtype, _events, binds, command, radio_command, traces,
                   _previous_value, cursor, other_events, dispatched_value>>

-----------------------------------------------------------------------------

Next ==
    \/ \E e \in EventNames, cb \in Callbacks : add_event_listener(e, cb)
    \/ \E e \in EventNames : remove_event_listener(e)
    \/ \E e \in EventNames : dispatch(e)
    \/ \E s \in TkSequences, t \in TkEvents : NativeEvent(s, t)
    \/ NativeCommand
    \/ NativeRadioCommand
    \/ \E v \in 0..MaxValue : ScaleSet(v)
    \/ \E v \in Texts : VariableWrite(v)

Spec == Init /\ [][Next]_vars

-----------------------------------------------------------------------------
(* The accessors *)

\* the setter of a property of Properties: configure(key=value)
SetProperty(property, value) ==
    /\ depth = 0
    /\ property \in Properties(wtype)
    /\ config' = [config EXCEPT ![SetterKey(wtype, property)] = value]
    /\ fop' = FacadeCall("set", property, value)
    /\ ret' = None
    /\ err' = ""
    /\ UNCHANGED <<font, depth>>
    /\ UNCHANGED eventvars

\* the getter of a property of Properties: cget(key)
GetProperty(property) ==
    /\ depth = 0
    /\ property \in Properties(wtype)
    /\ fop' = FacadeCall("get", property, None)
    /\ ret' = Return(config[GetterKey(wtype, property)])
    /\ err' = ""
    /\ UNCHANGED <<config, font, depth>>
    /\ UNCHANGED eventvars

\* the setter of Input.secret
SetSecret(value) ==
    /\ depth = 0
    /\ isinstance(wtype, "Input")
    /\ config' = [config EXCEPT !["show"] = IF value THEN "●" ELSE ""]
    /\ fop' = FacadeCall("set", "secret", value)
    /\ ret' = None
    /\ err' = ""
    /\ UNCHANGED <<font, depth>>
    /\ UNCHANGED eventvars

\* one frame of a read of Input.secret: the getter is entered; it returns,
\* or reads the property again, until the interpreter raises RecursionError
GetSecret ==
    /\ isinstance(wtype, "Input")
    /\ depth > 0 => (fop.kind = "get" /\ fop.property = "secret")
    /\ fop' = FacadeCall("get", "secret", None)
    /\ LET g == SecretGetter(config)
       IN  IF g.reads = "secret"
           THEN IF depth < MaxDepth
                THEN depth' = depth + 1 /\ err' = "" /\ ret' = None
                ELSE depth' = 0 /\ err' = "RecursionError" /\ ret' = None
           ELSE depth' = 0 /\ err' = "" /\ ret' = g.value
    /\ UNCHANGED <<config, font>>
    /\ UNCHANGED eventvars

\* StyleLabel.set_font(font, size, options)
set_font(font_name, size, options) ==
    /\ depth = 0
    /\ isinstance(wtype, "StyleLabel")
    /\ LET named == set_font_size(set_font_name(font, font_name), size)
           r == ApplyOptions(named, Split(options))
       IN  /\ font' = r.font
           /\ err' = r.err
    /\ fop' = FacadeCall("set_font", "",
                         [font |-> font_name, size |-> size,
                          options |-> options])
    /\ ret' = None
    /\ UNCHANGED <<config, depth>>
    /\ UNCHANGED eventvars

InitFacade == Constructed(FacadeTypes)

NextFacade ==
    \/ \E p \in OptionKeys : \E v \in PropertyValues(p) : SetProperty(p, v)
    \/ \E p \in OptionKeys : GetProperty(p)
    \/ \E v \in BOOLEAN : SetSecret(v)
    \/ GetSecret
    \/ \E f \in FontNames, z \in FontSizes, o \in OptionStrings :
          set_font(f, z, o)

SpecFacade == InitFacade /\ [][NextFacade]_vars

-----------------------------------------------------------------------------
(* Properties *)

InvalidEvent == "GooeyPieError: event not valid"
InvalidCallback == "GooeyPieError: must accept a single argument"
CannotRemove == "ValueError: Cannot remove event"

\* the operations in which the toolkit ran a handler of the widget
NativeKinds ==
    { "native_event", "native_command", "native_radio_command", "scale_set",
      "variable_write" }

\* a handler for event name e is installed in the toolkit
Attached(e) ==
    \/ \E s \in TkSequences : binds[s] # None /\ binds[s].event_name = e
    \/ command.event_name = e
    \/ radio_command.event_name = e
    \/ \E i \in 1..Len(traces) : traces[i].event_name = e

\* the last operation was a native trigger of the handler installed for e
TriggerOf(e) == op.kind \in NativeKinds /\ op.event_name = e

\* C1 (as claimed): for every supported event name with a registered
\* callback, each native trigger of its binding, command or trace invokes
\* that callback exactly once, with one event object.  The native trigger
\* of a Slider's 'change' is a notification of a changed value (C5).
C1_EveryTriggerInvokesOnce ==
    \A e \in SupportedEvents(wtype) :
        (/\ TriggerOf(e)
         /\ op.kind = "scale_set" => op.old # _value
         /\ e \in DOMAIN _events
         /\ _events[e] # None)
            => /\ Len(calls) = 1
               /\ calls[1].fn = _events[e]
               /\ calls[1].event.event_name = e

\* C2 (as claimed): remove_event_listener of a supported event name that had
\* a callback clears the callback and detaches the native trigger, and no
\* later trigger of the name calls a function or ends in an error.
C2_RemoveDetaches ==
    [][ \A e \in SupportedEvents(wtype) :
          /\ (/\ op'.kind = "remove_event_listener"
              /\ op'.event_name = e
              /\ e \in DOMAIN _events
              /\ _events[e] # None)
                => (_events'[e] = None /\ ~Attached(e)')
          /\ (TriggerOf(e)' /\ _events'[e] = None)
                => (calls' = <<>> /\ err' = "") ]_vars

C4_UnsupportedNameRejected ==
    [][ (/\ op'.kind = "add_event_listener"
         /\ op'.event_name \notin SupportedEvents(wtype))
          => (err' = InvalidEvent /\ UNCHANGED progvars) ]_vars

\* C5 (as claimed): with a 'change' listener registered on a Slider, a
\* notification that leaves the value as it was invokes no callback, and a
\* notification after a change of the value invokes the callback once.
C5_SliderChangeIffValueChanged ==
    (/\ op.kind = "scale_set"
     /\ op.event_name = "change"
     /\ _events["change"] # None)
        => /\ op.old = _value => calls = <<>>
           /\ op.old # _value
                => (Len(calls) = 1 /\ calls[1].fn = _events["change"])

\* C6 (as claimed): with a 'change' listener registered on an Input, a write
\* of the text variable with the text it already holds invokes no callback.
C6_InputSameTextSuppressed ==
    (/\ op.kind = "variable_write"
     /\ op.event_name = "change"
     /\ _events["change"] # None
     /\ op.old = _value)
        => calls = <<>>

\* C7 (as claimed): the keys of the event table are the supported set of
\* the widget's type in every reachable state.
C7_EventSetFixed == DOMAIN _events = SupportedEvents(wtype)

\* C8 (as claimed): remove_event_listener raises ValueError exactly for the
\* names outside the supported set; for a supported name it raises nothing
\* and leaves the name without callback.
C8_RemoveErrorIffUnsupported ==
    op.kind = "remove_event_listener"
        => /\ err = CannotRemove <=> op.event_name \notin SupportedEvents(wtype)
           /\ op.event_name \in SupportedEvents(wtype)
                => (err = "" /\ _events[op.event_name] = None)

\* C9 (as claimed): _event of a name without registered callback (never
\* registered, or removed) fails with AttributeError and calls nothing.
C9_MissingListenerIsAttributeError ==
    (/\ op.kind \in {"_event", "native_event", "native_command",
                     "native_radio_command"}
     /\ op.event_name # ""
     /\ \/ op.event_name \notin DOMAIN _events
        \/ _events[op.event_name] = None)
        => (err = "AttributeError" /\ calls = <<>>)

\* C10: every event object passed to a callback has the name the callback
\* is registered under and the widget; without tk event mouse and key are
\* None; with one, mouse is its x, y, x_root, y_root and key is None exactly
\* if its char is '??', else its char, keysym and keycode.
C10_EventObject ==
    \A i \in 1..Len(calls) :
        calls[i].fn \in Callbacks =>
            LET ev == calls[i].event
                tk == op.tk_event
            IN  /\ ev.event_name \in DOMAIN _events
                /\ _events[ev.event_name] = calls[i].fn
                /\ ev.widget = Self
                /\ tk = None => (ev.mouse = None /\ ev.key = None)
                /\ tk # None =>
                     /\ ev.mouse = [ x |-> tk.x, y |-> tk.y,
                                     x_root |-> tk.x_root,
                                     y_root |-> tk.y_root ]
                     /\ ev.key = None <=> tk.char = "??"
                     /\ tk.char # "??" =>
                          ev.key = [ char |-> tk.char, keysym |-> tk.keysym,
                                     keycode |-> tk.keycode ]

\* C10 witness: a native key event reached a registered callback
C10_Witness ==
    /\ op.kind = "native_event"
    /\ op.tk_event # None
    /\ op.tk_event.char # "??"
    /\ Len(calls) = 1
    /\ calls[1].fn \in Callbacks
    /\ calls[1].event.key # None

\* C11: add_event_listener and remove_event_listener change at most the
\* callback stored for the event name they are called with: the entries of
\* all other names of the widget and the table of the other widget are the
\* same after the call, whether it succeeds or fails.
C11_OnlyNamedCallbackChanges ==
    [][ op'.kind \in {"add_event_listener", "remove_event_listener"}
          => /\ \A e \in (DOMAIN _events \cup DOMAIN _events')
                            \ {op'.event_name} :
                    /\ e \in DOMAIN _events
                    /\ e \in DOMAIN _events'
                    /\ _events'[e] = _events[e]
             /\ other_events' = other_events ]_vars

\* C11 witness: a callback was registered while another event name of the
\* widget holds a callback, and the other widget's table differs
C11_Witness ==
    /\ op.kind = "add_event_listener"
    /\ err = ""
    /\ _events[op.event_name] = op.callback
    /\ \E e \in DOMAIN _events \ {op.event_name} : _events[e] # None
    /\ other_events # _events

\* the number of handlers installed in the toolkit for event name e
HandlerCount(e) ==
    Cardinality({ s \in TkSequences :
                    binds[s] # None /\ binds[s].event_name = e })
      + (IF command.event_name = e THEN 1 ELSE 0)
      + (IF radio_command.event_name = e THEN 1 ELSE 0)
      + Cardinality({ i \in 1..Len(traces) : traces[i].event_name = e })

\* C15 (as claimed): a registration for a supported event name that already
\* has a callback replaces the callback and leaves one native trigger for
\* the name, and a trigger of the name then invokes the registered callback
\* once and no other function.  (Slider notifications are left to C5 and
\* C16.)
C15_ReRegistrationReplaces ==
    [][ \A e \in SupportedEvents(wtype) :
          /\ (/\ op'.kind = "add_event_listener"
              /\ op'.event_name = e
              /\ err' = ""
              /\ _events[e] # None)
                => (_events'[e] = op'.callback /\ HandlerCount(e)' = 1)
          /\ (/\ TriggerOf(e)'
              /\ op'.kind # "scale_set"
              /\ _events'[e] # None)
                => (Len(calls') = 1 /\ calls'[1].fn = _events'[e]) ]_vars

\* the Slider's 'change' handler called _event in the last operation
SliderDispatched ==
    /\ op.kind = "scale_set"
    /\ op.event_name = "change"
    /\ (calls # <<>> \/ err # "")

\* C16: on a Slider, the value at a 'change' dispatch differs from the value
\* at the dispatch before it (from the value at construction for the first
\* one), and _previous_value is the value at the most recent dispatch.
C16_SliderDispatchesDiffer ==
    [][ isinstance(wtype, "Slider")
          => /\ _previous_value' = dispatched_value'
             /\ SliderDispatched' => _value' # dispatched_value ]_vars

\* C16 witness: a dispatch of the construction value 0, which an earlier
\* dispatch of another value must have preceded
C16_Witness ==
    /\ isinstance(wtype, "Slider")
    /\ SliderDispatched
    /\ Len(calls) = 1
    /\ _value = 0
    /\ _previous_value = 0

\* C17 (as claimed): on a Hyperlink, in every reachable state, a native left
\* click runs _open_link and a native pointer-enter sets the hand cursor.
C17_HyperlinkBuiltinsSurvive ==
    isinstance(wtype, "Hyperlink")
        => /\ binds["<Button-1>"] = OpenLink
           /\ binds["<Enter>"] = HandCursor

-----------------------------------------------------------------------------
(* StyleLabel.set_font *)

\* the options string is a list of words separated by single spaces, or ''
WellFormed(o) ==
    \/ o = <<>>
    \/ /\ Len(o) % 2 = 1
       /\ \A i \in 1..Len(o) : (o[i] = " ") <=> (i % 2 = 0)

Listed(o) == { o[i] : i \in 1..Len(o) } \ {" "}

Styles(f) ==
    (IF f.weight = "bold" THEN {"bold"} ELSE {})
    \cup (IF f.slant = "italic" THEN {"italic"} ELSE {})
    \cup (IF f.underline = 1 THEN {"underline"} ELSE {})
    \cup (IF f.overstrike = 1 THEN {"strikethrough"} ELSE {})

\* C12: set_font with a space-separated list of names from bold, italic,
\* underline and strikethrough, the default '' included, succeeds and leaves
\* the label with the given family and size and exactly the listed styles;
\* it raises the ValueError exactly when some name is none of the four.
C12_SetFontAcceptsListedStyles ==
    (fop.kind = "set_font" /\ WellFormed(fop.arg.options)) =>
        IF Listed(fop.arg.options) \subseteq StyleWords
        THEN /\ err = ""
             /\ font.family = IF fop.arg.font = "default"
                               THEN DefaultFont.family ELSE fop.arg.font
             /\ font.size = IF fop.arg.size = "default"
                             THEN DefaultFont.size ELSE fop.arg.size
             /\ Styles(font) = Listed(fop.arg.options)
        ELSE err = "ValueError: Font options"

-----------------------------------------------------------------------------
(* Input.secret *)

\* C13: a read of Input.secret never returns the masking state: it returns
\* nothing while it nests, and ends in RecursionError, whatever the setter
\* configured.
C13_SecretReadNeverReturns ==
    (fop.kind = "get" /\ fop.property = "secret") =>
        /\ ret = None
        /\ depth = 0 => err = "RecursionError"

C13_Witness ==
    /\ fop.kind = "get" /\ fop.property = "secret"
    /\ config["show"] = "●"
    /\ depth = 0
    /\ err = "RecursionError"

-----------------------------------------------------------------------------
(* Accessor pairs *)

\* C14: for each accessor pair that goes to the configuration, a write
\* changes no configuration key but the one the read consults, and a read
\* right after a write of v returns v.
C14_AccessorsRoundTrip ==
    [][ /\ (fop'.kind = "set" /\ fop'.property \in Properties(wtype)) =>
              \A k \in OptionKeys \ {GetterKey(wtype, fop'.property)} :
                  config'[k] = config[k]
        /\ ( /\ fop.kind = "set" /\ fop.property \in Properties(wtype)
             /\ fop'.kind = "get" /\ fop'.property = fop.property ) =>
              ret' = Return(fop.arg) ]_vars

====
